---- MODULE Spec2Model ----
(***************************************************************************)
(* Papagaio (src/app.js): the spaced-repetition core of PapagaioApp.       *)
(* The model keeps the scheduler's state (words, userStats, wordOfTheDay,  *)
(* isAnimating, the pending animation timer), the persisted copy of the    *)
(* stats in localStorage, the clock, and the two containers the selection  *)
(* switches between (the featured card and the "all done" message).        *)
(*                                                                         *)
(* Time is counted in ticks; a day has TicksPerDay ticks, so that a        *)
(* timestamp has a time-of-day part and "start of day" is a real           *)
(* truncation.  The state keeps the day; a handler that reads new Date()   *)
(* gets a timestamp of that day, at any time of the day.                   *)
(* Word ids are positive integers; as object keys they are                 *)
(* written and read back as decimal strings (parseInt, app.js:185), which  *)
(* on such ids is the same id.                                             *)
(***************************************************************************)
EXTENDS Integers, Sequences, FiniteSets, TLC

\* ------------------------------------------------------------- bounds
MaxWords == 2
MaxDay == 1
TicksPerDay == 2
StoredWords == 4
StoredDays == 4

\* ---------------------------------------------------------- constants
\* wordOfTheDay = null (constructor, showAllDoneMessage)
Null == 0
\* words[0] of an empty array (showRandomWord)
Undefined == 0 - 1
\* no setTimeout callback pending
NoTimer == 0 - 1
\* no rating applied by the last step
NoRating == 0 - 1
\* the rated word had no record
NoRecord == 0 - 2
\* the last step was a rating event that handleRating or the key handler ignored
Ignored == 0 - 3
MaxMaestria == 5

Ratings == {0, 1, 2}

VARIABLES
    catalog,        \* the content of palabras.json: a sequence of word ids
    words,          \* this.words
    userStats,      \* this.userStats: word id -> record
    storage,        \* localStorage item papagaio_userStats: <<>> or <<stats>>
    today,          \* the current day
    wordOfTheDay,   \* this.wordOfTheDay: a word id, Null or Undefined
    isAnimating,    \* this.isAnimating
    timer,          \* the pending setTimeout callback: its rating, or NoTimer
    pc,             \* "loading" (init awaits loadWords) or "ready"
    view,           \* "initial", "card" or "allDone": which container is shown
    allDoneStats,   \* the stats on display in #all-done-stats: <<stats>>,
                    \* or <<>> while the all-done container is hidden
    selectRan,      \* the last step ran selectNextWord
    rated,          \* the rating the last step applied, or NoRating
    prev,           \* the rated word's maestria before that rating (NoRecord
                    \* when it had no record), or NoRating
    ratedAt,        \* the timestamp that rating read from the clock, or NoRating
    fired,          \* the rating whose setTimeout callback the last step ran,
                    \* or NoRating
    ratedWord,      \* the word whose rating set the pending callback, or Null
    ratedToday      \* the ids of the words rated since the day began

vars == <<catalog, words, userStats, storage, today, wordOfTheDay, isAnimating,
          timer, pc, view, allDoneStats, selectRan, rated, prev, ratedAt, fired,
          ratedWord, ratedToday>>

\* no rating event and no callback in the last step
noRating ==
    rated' = NoRating /\ prev' = NoRating /\ ratedAt' = NoRating /\ fired' = NoRating

\* the last step was a rating event that changed nothing
ignoredRating ==
    rated' = Ignored /\ prev' = NoRating /\ ratedAt' = NoRating /\ fired' = NoRating

\* the word collection of length n; ids run against the collection's order
Collection(n) == [i \in 1..n |-> n + 1 - i]

SeqToSet(s) == {s[i] : i \in 1..Len(s)}

\* --------------------------------------------------------- the clock
\* the timestamps new Date() can give on day d
Clock(d) == {d * TicksPerDay + tod : tod \in 0..(TicksPerDay - 1)}

\* the timestamp a handler reads when its outcome does not depend on the time
\* of the day (isDueForReview truncates it): the last one of day d
Clock1(d) == d * TicksPerDay + (TicksPerDay - 1)

\* now.setHours(0, 0, 0, 0)
StartOfDay(t) == t - (t % TicksPerDay)

\* ----------------------------------------------------- UserStats methods
\* a word id is truthy as wordOfTheDay; null and undefined are not
Truthy(w) == w > 0

getWordStats(us, wordId) ==
    IF wordId \in DOMAIN us THEN <<us[wordId]>> ELSE <<>>

getEstado(maestria) ==
    IF maestria <= 2 THEN "aprendiendo" ELSE "repasando"

Min(a, b) == IF a <= b THEN a ELSE b

newMaestriaUncapped(level0, rating) ==
    IF rating = 0 THEN 0
    ELSE IF rating = 1 THEN level0 + 1
    ELSE level0 + 2

newMaestriaCapAtFour(level0, rating) ==
    IF rating = 0 THEN 0
    ELSE IF rating = 1 THEN Min(4, level0 + 1)
    ELSE Min(MaxMaestria, level0 + 2)

newMaestriaKeepOnAgain(level0, rating) ==
    IF rating = 0 THEN level0
    ELSE IF rating = 1 THEN Min(MaxMaestria, level0 + 1)
    ELSE Min(MaxMaestria, level0 + 2)

\* app.js:76-88, the level
newMaestria(level0, rating) ==
    IF rating = 0 THEN 0
    ELSE IF rating = 1 THEN Min(MaxMaestria, level0 + 1)
    ELSE Min(MaxMaestria, level0 + 2)

daysUntilReviewAgainToday(rating) ==
    IF rating = 0 THEN 0
    ELSE IF rating = 1 THEN 2
    ELSE 7

\* app.js:76-88, the interval
daysUntilReview(rating) ==
    IF rating = 0 THEN 1
    ELSE IF rating = 1 THEN 2
    ELSE 7

nextReviewNoTruncation(t, days) == t + days * TicksPerDay

\* app.js:91-93: today's date plus the interval, at the start of that day
nextReview(t, days) == StartOfDay(t + days * TicksPerDay)

updateWordStatsForgetsOthers(us, wordId, rating, t) ==
    LET current == getWordStats(us, wordId)
        level0 == IF current # <<>> THEN current[1].maestria ELSE 0
        level1 == newMaestria(level0, rating)
        rec == [maestria |-> level1,
                proxima_revisao |-> nextReview(t, daysUntilReview(rating)),
                estado |-> getEstado(level1)]
    IN [id \in {wordId} |-> rec]

updateWordStatsStaleEstado(us, wordId, rating, t) ==
    LET current == getWordStats(us, wordId)
        level0 == IF current # <<>> THEN current[1].maestria ELSE 0
        level1 == newMaestria(level0, rating)
        rec == [maestria |-> level1,
                proxima_revisao |-> nextReview(t, daysUntilReview(rating)),
                estado |-> getEstado(level0)]
    IN [id \in DOMAIN us \cup {wordId} |-> IF id = wordId THEN rec ELSE us[id]]

updateWordStatsShiftsAll(us, wordId, rating, t) ==
    LET current == getWordStats(us, wordId)
        level0 == IF current # <<>> THEN current[1].maestria ELSE 0
        level1 == newMaestria(level0, rating)
        next == nextReview(t, daysUntilReview(rating))
        rec == [maestria |-> level1, proxima_revisao |-> next,
                estado |-> getEstado(level1)]
    IN [id \in DOMAIN us \cup {wordId} |->
           IF id = wordId THEN rec ELSE [us[id] EXCEPT !.proxima_revisao = next]]

\* app.js:69-99: the store after the rating (before it is saved)
updateWordStats(us, wordId, rating, t) ==
    LET current == getWordStats(us, wordId)
        level0 == IF current # <<>> THEN current[1].maestria ELSE 0
        level1 == newMaestria(level0, rating)
        rec == [maestria |-> level1,
                proxima_revisao |-> nextReview(t, daysUntilReview(rating)),
                estado |-> getEstado(level1)]
    IN [id \in DOMAIN us \cup {wordId} |-> IF id = wordId THEN rec ELSE us[id]]

isDueForReviewStrict(us, wordId, t) ==
    /\ getWordStats(us, wordId) # <<>>
    /\ us[wordId].proxima_revisao < StartOfDay(t)

\* app.js:108-115
isDueForReview(us, wordId, t) ==
    /\ getWordStats(us, wordId) # <<>>
    /\ us[wordId].proxima_revisao <= StartOfDay(t)

\* app.js:120-122
isNewWord(us, wordId) == wordId \notin DOMAIN us

getDueWordsAllStudied(ws, us, t) == SelectSeq(ws, LAMBDA w : ~isNewWord(us, w))

\* app.js:127-129
getDueWords(ws, us, t) == SelectSeq(ws, LAMBDA w : isDueForReview(us, w, t))

\* app.js:134-136
getNewWords(ws, us) == SelectSeq(ws, LAMBDA w : isNewWord(us, w))

getStudyStatsNewOfTotal(ws, us, t) ==
    [total |-> Len(ws),
     nuevo |-> Len(ws),
     aprendiendo |-> Cardinality({id \in DOMAIN us : us[id].estado = "aprendiendo"}),
     repasando |-> Cardinality({id \in DOMAIN us : us[id].estado = "repasando"}),
     due |-> Cardinality({id \in DOMAIN us : isDueForReview(us, id, t)})]

getStudyStatsAllLearning(ws, us, t) ==
    [total |-> Len(ws),
     nuevo |-> Len(ws) - Cardinality(DOMAIN us),
     aprendiendo |-> Cardinality(DOMAIN us),
     repasando |-> Cardinality({id \in DOMAIN us : us[id].estado = "repasando"}),
     due |-> Cardinality({id \in DOMAIN us : isDueForReview(us, id, t)})]

\* app.js:172-195
getStudyStats(ws, us, t) ==
    [total |-> Len(ws),
     nuevo |-> Len(ws) - Cardinality(DOMAIN us),
     aprendiendo |-> Cardinality({id \in DOMAIN us : us[id].estado = "aprendiendo"}),
     repasando |-> Cardinality({id \in DOMAIN us : us[id].estado = "repasando"}),
     due |-> Cardinality({id \in DOMAIN us : isDueForReview(us, id, t)})]

isLearnedAtFour(us, wordId) ==
    /\ getWordStats(us, wordId) # <<>>
    /\ us[wordId].maestria >= 4

\* app.js:475-478
isLearned(us, wordId) ==
    /\ getWordStats(us, wordId) # <<>>
    /\ us[wordId].maestria >= 5

\* app.js:45-47: the item written; JSON.stringify keeps every field of every
\* record (integers and strings), and JSON.parse reads them back
saveUserStats(us) == <<us>>

loadUserStatsKeepsEmpty(item, us) == us

\* app.js:38-43: the stats after loading the item (<<>> when there is none)
loadUserStats(item, us) == IF item # <<>> THEN item[1] ELSE us

\* the level a rating starts from, NoRecord for a new word
priorMaestria(us, wordId) ==
    IF wordId \in DOMAIN us THEN us[wordId].maestria ELSE NoRecord

\* ------------------------------------------------------- word selection
\* the comparator's key (app.js:511-513)
reviewKey(us, wordId) ==
    IF wordId \in DOMAIN us THEN us[wordId].proxima_revisao ELSE 0

\* w put into the sorted s behind every element that does not compare greater
\* (x is s, evaluated once)
insertSorted(s, w, us) ==
    CHOOSE r \in
        {LET k == Cardinality({i \in 1..Len(x) :
                                reviewKey(us, x[i]) <= reviewKey(us, w)})
         IN SubSeq(x, 1, k) \o <<w>> \o SubSeq(x, k + 1, Len(x)) : x \in {s}} : TRUE

RECURSIVE sortDueWords(_, _)
\* app.js:510-514: Array.prototype.sort, a stable sort, oldest due date first
\* (x is s, evaluated once)
sortDueWords(s, us) ==
    CHOOSE r \in
        {IF x = <<>> THEN <<>>
         ELSE insertSorted(sortDueWords(SubSeq(x, 1, Len(x) - 1), us),
                           x[Len(x)], us) : x \in {s}} : TRUE

topCandidatesFour(dueWords) == SubSeq(dueWords, 1, Min(4, Len(dueWords)))

\* app.js:517
topCandidates(dueWords) == SubSeq(dueWords, 1, Min(3, Len(dueWords)))

\* app.js:536-543 (renderFeaturedCard throws on a null or undefined word,
\* after the containers and wordOfTheDay are set)
showWord(word) ==
    /\ view' = "card"
    /\ wordOfTheDay' = word
    /\ allDoneStats' = <<>>

\* app.js:552-568
showAllDoneMessage(ws, us, t) ==
    /\ wordOfTheDay' = Null
    /\ view' = "allDone"
    /\ allDoneStats' = <<getStudyStats(ws, us, t)>>

selectNextWordNoEmptyGuard(ws, us, t) ==
    LET dueWords == sortDueWords(getDueWords(ws, us, t), us)
        newWords == getNewWords(ws, us)
    IN /\ userStats' = us
       /\ storage' = storage
       /\ IF Len(dueWords) > 0
          THEN \E i \in 1..Len(topCandidates(dueWords)) :
                   showWord(topCandidates(dueWords)[i])
          ELSE IF Len(newWords) > 0
          THEN \E i \in 1..Len(newWords) : showWord(newWords[i])
          ELSE showAllDoneMessage(ws, us, t)

selectNextWordNewFirst(ws, us, t) ==
    LET dueWords == sortDueWords(getDueWords(ws, us, t), us)
        newWords == getNewWords(ws, us)
    IN /\ userStats' = us
       /\ storage' = storage
       /\ IF Len(ws) = 0
          THEN UNCHANGED <<wordOfTheDay, view, allDoneStats>>
          ELSE IF Len(newWords) > 0
          THEN \E i \in 1..Len(newWords) : showWord(newWords[i])
          ELSE IF Len(dueWords) > 0
          THEN \E i \in 1..Len(topCandidates(dueWords)) :
                   showWord(topCandidates(dueWords)[i])
          ELSE showAllDoneMessage(ws, us, t)

selectNextWordOldestOnly(ws, us, t) ==
    LET dueWords == sortDueWords(getDueWords(ws, us, t), us)
        newWords == getNewWords(ws, us)
    IN /\ userStats' = us
       /\ storage' = storage
       /\ IF Len(ws) = 0
          THEN UNCHANGED <<wordOfTheDay, view, allDoneStats>>
          ELSE IF Len(dueWords) > 0
          THEN showWord(topCandidates(dueWords)[1])
          ELSE IF Len(newWords) > 0
          THEN \E i \in 1..Len(newWords) : showWord(newWords[i])
          ELSE showAllDoneMessage(ws, us, t)

selectNextWordMarksSeen(ws, us, t) ==
    LET dueWords == sortDueWords(getDueWords(ws, us, t), us)
        newWords == getNewWords(ws, us)
    IN /\ storage' = storage
       /\ IF Len(ws) = 0
          THEN UNCHANGED <<userStats, wordOfTheDay, view, allDoneStats>>
          ELSE IF Len(dueWords) > 0
          THEN /\ userStats' = us
               /\ \E i \in 1..Len(topCandidates(dueWords)) :
                      showWord(topCandidates(dueWords)[i])
          ELSE IF Len(newWords) > 0
          THEN \E i \in 1..Len(newWords) :
                   /\ showWord(newWords[i])
                   /\ userStats' = updateWordStats(us, newWords[i], 0, t)
          ELSE /\ userStats' = us
               /\ showAllDoneMessage(ws, us, t)

\* app.js:503-534, on the collection ws and the store us
selectNextWord(ws, us, t) ==
    LET dueWords == sortDueWords(getDueWords(ws, us, t), us)
        newWords == getNewWords(ws, us)
    IN /\ userStats' = us
       /\ storage' = storage
       /\ IF Len(ws) = 0
          THEN UNCHANGED <<wordOfTheDay, view, allDoneStats>>
          ELSE IF Len(dueWords) > 0
          THEN \E i \in 1..Len(topCandidates(dueWords)) :
                   showWord(topCandidates(dueWords)[i])
          ELSE IF Len(newWords) > 0
          THEN \E i \in 1..Len(newWords) : showWord(newWords[i])
          ELSE showAllDoneMessage(ws, us, t)

\* ------------------------------------------------------------ the state
\* after the constructor: init() has called loadWords() and awaits the fetch
Construct ==
    /\ words = <<>>
    /\ userStats = <<>>
    /\ wordOfTheDay = Null
    /\ isAnimating = FALSE
    /\ timer = NoTimer
    /\ pc = "loading"
    /\ view = "initial"
    /\ allDoneStats = <<>>
    /\ selectRan = FALSE
    /\ rated = NoRating
    /\ prev = NoRating
    /\ ratedAt = NoRating
    /\ fired = NoRating
    /\ ratedWord = Null
    /\ ratedToday = {}

Init ==
    /\ catalog \in {Collection(n) : n \in 0..MaxWords}
    /\ storage = <<>>
    /\ today = 0
    /\ Construct

InitResumeNoAwait ==
    /\ pc = "loading"
    /\ \E ok \in BOOLEAN :
        LET t == Clock1(today)
            ws == IF ok THEN catalog ELSE words
            us == loadUserStats(storage, userStats)
        IN  /\ words' = ws
            /\ selectNextWord(words, us, t)
    /\ pc' = "ready"
    /\ selectRan' = TRUE
    /\ noRating
    /\ UNCHANGED <<catalog, today, isAnimating, timer, ratedWord, ratedToday>>

\* app.js:25-32 and 242-251: the fetch settles (ok: this.words is set; not
\* ok: the catch leaves it empty), then loadUserStats, bindEvents and
\* selectNextWord run
InitResume ==
    /\ pc = "loading"
    /\ \E ok \in BOOLEAN :
        LET t == Clock1(today)
            ws == IF ok THEN catalog ELSE words
            us == loadUserStats(storage, userStats)
        IN  /\ words' = ws
            /\ selectNextWord(ws, us, t)
    /\ pc' = "ready"
    /\ selectRan' = TRUE
    /\ noRating
    /\ UNCHANGED <<catalog, today, isAnimating, timer, ratedWord, ratedToday>>

\* app.js:316-319: the refresh-word button
RefreshWord ==
    /\ pc = "ready"
    /\ selectNextWord(words, userStats, Clock1(today))
    /\ selectRan' = TRUE
    /\ noRating
    /\ UNCHANGED <<catalog, words, today, isAnimating, timer, pc, ratedWord,
                   ratedToday>>

\* app.js:331-333 and 545-550: the practice-anyway button
PracticeAnyway ==
    /\ pc = "ready"
    /\ IF Len(words) = 0
       THEN showWord(Undefined)
       ELSE \E i \in 1..Len(words) : showWord(words[i])
    /\ selectRan' = FALSE
    /\ noRating
    /\ UNCHANGED <<catalog, words, userStats, storage, today, isAnimating, timer, pc,
                   ratedWord, ratedToday>>

handleRatingNoWordGuard(rating, saved, t) ==
    /\ pc = "ready"
    /\ IF isAnimating
       THEN /\ ignoredRating
            /\ UNCHANGED <<userStats, storage, isAnimating, timer, ratedWord,
                           ratedToday>>
       ELSE /\ isAnimating' = TRUE
            /\ userStats' = updateWordStats(userStats, wordOfTheDay, rating, t)
            /\ rated' = rating
            /\ ratedAt' = t
            /\ prev' = priorMaestria(userStats, wordOfTheDay)
            /\ fired' = NoRating
            /\ ratedToday' = ratedToday \cup {wordOfTheDay}
            /\ IF saved
               THEN /\ storage' = saveUserStats(userStats')
                    /\ timer' = rating
                    /\ ratedWord' = wordOfTheDay
               ELSE UNCHANGED <<storage, timer, ratedWord>>
    /\ selectRan' = FALSE
    /\ UNCHANGED <<catalog, words, today, wordOfTheDay, pc, view, allDoneStats>>

handleRatingWhileAnimating(rating, saved, t) ==
    /\ pc = "ready"
    /\ IF ~Truthy(wordOfTheDay)
       THEN /\ ignoredRating
            /\ UNCHANGED <<userStats, storage, isAnimating, timer, ratedWord,
                           ratedToday>>
       ELSE /\ isAnimating' = TRUE
            /\ userStats' = updateWordStats(userStats, wordOfTheDay, rating, t)
            /\ rated' = rating
            /\ ratedAt' = t
            /\ prev' = priorMaestria(userStats, wordOfTheDay)
            /\ fired' = NoRating
            /\ ratedToday' = ratedToday \cup {wordOfTheDay}
            /\ IF saved
               THEN /\ storage' = saveUserStats(userStats')
                    /\ timer' = rating
                    /\ ratedWord' = wordOfTheDay
               ELSE UNCHANGED <<storage, timer, ratedWord>>
    /\ selectRan' = FALSE
    /\ UNCHANGED <<catalog, words, today, wordOfTheDay, pc, view, allDoneStats>>

\* app.js:322-328 and 421-469: a rating button; saved tells whether
\* localStorage.setItem returned (it throws when the storage is full or
\* disabled, and then the rest of handleRating does not run)
handleRating(rating, saved, t) ==
    /\ pc = "ready"
    /\ IF ~Truthy(wordOfTheDay) \/ isAnimating
       THEN /\ ignoredRating
            /\ UNCHANGED <<userStats, storage, isAnimating, timer, ratedWord,
                           ratedToday>>
       ELSE /\ isAnimating' = TRUE
            /\ userStats' = updateWordStats(userStats, wordOfTheDay, rating, t)
            /\ rated' = rating
            /\ ratedAt' = t
            /\ prev' = priorMaestria(userStats, wordOfTheDay)
            /\ fired' = NoRating
            /\ ratedToday' = ratedToday \cup {wordOfTheDay}
            /\ IF saved
               THEN /\ storage' = saveUserStats(userStats')
                    /\ timer' = rating
                    /\ ratedWord' = wordOfTheDay
               ELSE UNCHANGED <<storage, timer, ratedWord>>
    /\ selectRan' = FALSE
    /\ UNCHANGED <<catalog, words, today, wordOfTheDay, pc, view, allDoneStats>>

\* a click on a rating button, the stats being saved; a click that
\* handleRating ignores is taken once, whatever its inputs
Rate ==
    IF ~Truthy(wordOfTheDay) \/ isAnimating
    THEN handleRating(0, TRUE, Clock1(today))
    ELSE \E rating \in Ratings, t \in Clock(today) : handleRating(rating, TRUE, t)

\* app.js:408-413: the keys 1, 2 and 3 rate the word when there is one, its
\* card is flipped and no animation runs; whether the card is flipped is up
\* to the learner.  A key pressed on a card that is not flipped runs nothing.
KeyRate ==
    /\ pc = "ready"
    /\ \E flipped \in BOOLEAN :
        IF Truthy(wordOfTheDay) /\ flipped /\ ~isAnimating
        THEN \E rating \in Ratings, t \in Clock(today) : handleRating(rating, TRUE, t)
        ELSE IF ~Truthy(wordOfTheDay) \/ isAnimating
        THEN /\ selectRan' = FALSE
             /\ ignoredRating
             /\ UNCHANGED <<catalog, words, userStats, storage, today, wordOfTheDay,
                            isAnimating, timer, pc, view, allDoneStats, ratedWord,
                            ratedToday>>
        ELSE UNCHANGED vars

\* a click on a rating button when localStorage.setItem throws
RateStoreFails ==
    /\ Truthy(wordOfTheDay) /\ ~isAnimating
    /\ \E rating \in Ratings, t \in Clock(today) : handleRating(rating, FALSE, t)

TimerFireShowsAgain ==
    /\ timer # NoTimer
    /\ isAnimating' = FALSE
    /\ timer' = NoTimer
    /\ showWord(wordOfTheDay)
    /\ selectRan' = FALSE
    /\ rated' = NoRating /\ prev' = NoRating /\ ratedAt' = NoRating
    /\ fired' = timer
    /\ ratedWord' = Null
    /\ UNCHANGED <<catalog, words, userStats, storage, today, pc, ratedToday>>

\* app.js:458-468: the setTimeout callback
TimerFire ==
    /\ timer # NoTimer
    /\ isAnimating' = FALSE
    /\ timer' = NoTimer
    /\ IF timer = 0
       THEN /\ showWord(wordOfTheDay)
            /\ selectRan' = FALSE
            /\ UNCHANGED <<userStats, storage>>
       ELSE /\ selectNextWord(words, userStats, Clock1(today))
            /\ selectRan' = TRUE
    /\ rated' = NoRating /\ prev' = NoRating /\ ratedAt' = NoRating
    /\ fired' = timer
    /\ ratedWord' = Null
    /\ UNCHANGED <<catalog, words, today, pc, ratedToday>>

\* midnight passes
NextDay ==
    /\ today < MaxDay
    /\ today' = today + 1
    /\ selectRan' = FALSE
    /\ noRating
    /\ ratedToday' = {}
    /\ UNCHANGED <<catalog, words, userStats, storage, wordOfTheDay, isAnimating,
                   timer, pc, view, allDoneStats, ratedWord>>

\* the page is closed and opened again: a new PapagaioApp, the same localStorage
Reload ==
    /\ words' = <<>>
    /\ userStats' = <<>>
    /\ wordOfTheDay' = Null
    /\ isAnimating' = FALSE
    /\ timer' = NoTimer
    /\ pc' = "loading"
    /\ view' = "initial"
    /\ allDoneStats' = <<>>
    /\ selectRan' = FALSE
    /\ noRating
    /\ ratedWord' = Null
    /\ UNCHANGED <<catalog, storage, today, ratedToday>>

Next ==
    \/ InitResume
    \/ RefreshWord
    \/ PracticeAnyway
    \/ Rate
    \/ KeyRate
    \/ TimerFire
    \/ NextDay
    \/ Reload

Spec == Init /\ [][Next]_vars

\* ----------------------------------------------------------------------
\* The page opened on a later day, over the stats earlier sessions stored.
\* Every record a rating writes has a maestria of 0..5, the estado of that
\* maestria and a start of day as proxima_revisao; the stored stats are drawn
\* from such records, at the two levels around the estado boundary.
StoredLevels == {2, 3}

StoredRecords ==
    {[maestria |-> m, proxima_revisao |-> d * TicksPerDay, estado |-> getEstado(m)] :
        m \in StoredLevels, d \in 1..StoredDays}

StoredStats(ws) ==
    UNION {[ids -> StoredRecords] : ids \in SUBSET SeqToSet(ws)}

InitStored ==
    /\ catalog \in {Collection(n) : n \in 0..StoredWords}
    /\ \E us \in StoredStats(catalog) : storage = <<us>>
    /\ today \in {StoredDays - 1, StoredDays}
    /\ Construct

NextStored ==
    \/ InitResume
    \/ RefreshWord

SpecStored == InitStored /\ [][NextStored]_vars

\* The page opened over stored records that are to be reviewed the day
\* before, on the day itself or the day after: the words a selection has
\* to tell apart.
SelectRecords ==
    {[maestria |-> 2, proxima_revisao |-> d * TicksPerDay, estado |-> getEstado(2)] :
        d \in (StoredDays - 2)..StoredDays}

InitSelect ==
    /\ catalog \in {Collection(n) : n \in 0..StoredWords}
    /\ \E ids \in SUBSET SeqToSet(catalog) :
           \E us \in [ids -> SelectRecords] : storage = <<us>>
    /\ today = StoredDays - 1
    /\ Construct

SpecSelect == InitSelect /\ [][NextStored]_vars

\* One day of study over such records: the learner rates and refreshes, the
\* day does not end and the page stays open.  The fetch settles and a
\* callback that is set runs (setTimeout, 450 ms); the learner does not stop
\* rating GOOD or EASY for good while a word can be rated.
InitSession ==
    /\ catalog \in {Collection(n) : n \in 0..MaxWords}
    /\ \E ids \in SUBSET SeqToSet(catalog) :
           \E us \in [ids -> SelectRecords] : storage = <<us>>
    /\ today = StoredDays - 1
    /\ Construct

NextSession ==
    \/ InitResume
    \/ RefreshWord
    \/ Rate
    \/ KeyRate
    \/ TimerFire

RateGoodOrEasy == (Rate \/ KeyRate) /\ rated' \in {1, 2}

SpecSession ==
    /\ InitSession
    /\ [][NextSession]_vars
    /\ WF_vars(InitResume)
    /\ WF_vars(TimerFire)
    /\ SF_vars(RateGoodOrEasy)

\* the same program with a localStorage whose writes can fail
NextStoreFails == Next \/ RateStoreFails

SpecStoreFails == Init /\ [][NextStoreFails]_vars

\* ======================================================================
\* The claims.  What a claim calls a day is the number of whole days in a
\* timestamp; the sets below are its due and new words, counted on the
\* word collection and the records, not through the program's operators.
DayOf(t) == t \div TicksPerDay

WordSet == SeqToSet(words)

HasRecord(w) == w \in DOMAIN userStats

DueSet == {w \in WordSet : HasRecord(w) /\ DayOf(userStats[w].proxima_revisao) <= today}

NewSet == {w \in WordSet : ~HasRecord(w)}

AllCaughtUp == wordOfTheDay = Null /\ view = "allDone"

\* C1: after any sequence of ratings from an empty store, every record's
\* maestria is an integer from 0 to 5.
C1_LevelInRange ==
    \A id \in DOMAIN userStats :
        /\ userStats[id].maestria \in Int
        /\ userStats[id].maestria >= 0
        /\ userStats[id].maestria <= 5

\* a word at level 5 was rated GOOD or EASY and its record is at level 5
C1_Witness ==
    /\ rated \in {1, 2}
    /\ prev = 5
    /\ userStats[wordOfTheDay].maestria = 5

\* C2: selectNextWord on a non-empty collection gives a due word when a word is
\* due, else a new word when a word is new, and the all-done message exactly
\* when no word is due and none is new; a word it gives is due or new.
C2_Priority ==
    (selectRan /\ Len(words) > 0) =>
        /\ DueSet # {} => wordOfTheDay \in DueSet
        /\ (DueSet = {} /\ NewSet # {}) => wordOfTheDay \in NewSet
        /\ AllCaughtUp <=> (DueSet = {} /\ NewSet = {})
        /\ Truthy(wordOfTheDay) => wordOfTheDay \in DueSet \cup NewSet
        /\ ~AllCaughtUp => Truthy(wordOfTheDay)

\* a due word was selected while another word was new
C2_Witness ==
    /\ selectRan
    /\ NewSet # {}
    /\ wordOfTheDay \in DueSet

\* the place of a word in the collection
PlaceOf(w) == CHOOSE i \in 1..Len(words) : words[i] = w

\* the due words that come before w: an older review date, or the same date
\* and an earlier place in the collection
DueBefore(w) ==
    {v \in DueSet :
        \/ userStats[v].proxima_revisao < userStats[w].proxima_revisao
        \/ /\ userStats[v].proxima_revisao = userStats[w].proxima_revisao
           /\ PlaceOf(v) < PlaceOf(w)}

\* C3: with words due, selectNextWord gives one of the first min(3, k) due
\* words in ascending order of proxima_revisao, ties in collection order.
C3_TopThree ==
    (selectRan /\ DueSet # {}) =>
        /\ wordOfTheDay \in DueSet
        /\ Cardinality(DueBefore(wordOfTheDay)) < 3

\* four words are due, with four different review dates, and the third of
\* them was selected
C3_Witness ==
    /\ selectRan
    /\ Cardinality(DueSet) = 4
    /\ \A v, w \in DueSet :
           v # w => userStats[v].proxima_revisao # userStats[w].proxima_revisao
    /\ wordOfTheDay \in DueSet
    /\ Cardinality(DueBefore(wordOfTheDay)) = 2

\* C4: a rating AGAIN at a time of day D leaves the rated word at level 0,
\* to be reviewed at the start of day D + 1, and not learned, whatever its
\* level was and whether or not it had a record.
C4_Again ==
    rated = 0 =>
        /\ HasRecord(wordOfTheDay)
        /\ userStats[wordOfTheDay].maestria = 0
        /\ userStats[wordOfTheDay].proxima_revisao = (DayOf(ratedAt) + 1) * TicksPerDay
        /\ ~isLearned(userStats, wordOfTheDay)

\* a learned word (level 5) was rated AGAIN
C4_Witness ==
    /\ rated = 0
    /\ prev = 5

\* the level a rating started from, as the claim counts it
LevelBefore == IF prev = NoRecord THEN 0 ELSE prev

\* C5: GOOD gives level min(5, L + 1) and EASY gives min(5, L + 2), L being
\* the level before (0 without a record); the level stays what it was only
\* at L = 5.
C5_GoodEasy ==
    rated \in {1, 2} =>
        LET gain == IF rated = 1 THEN 1 ELSE 2
            after == userStats[wordOfTheDay].maestria
        IN /\ after = (IF LevelBefore + gain > 5 THEN 5 ELSE LevelBefore + gain)
           /\ (after = LevelBefore) <=> (LevelBefore = 5)

\* a word at level 4 was rated EASY: the cap cuts the gain
C5_Witness ==
    /\ rated = 2
    /\ prev = 4
    /\ userStats[wordOfTheDay].maestria = 5

\* the interval the claim gives each rating, in days
ClaimedInterval(r) == IF r = 0 THEN 1 ELSE IF r = 1 THEN 2 ELSE 7

\* C6: a rating at any time of day D stores the start of day D plus the
\* rating's interval (1, 2, 7 days for AGAIN, GOOD, EASY), whatever the level
\* before; the interval grows with the rating.
C6_Interval ==
    /\ rated \in Ratings =>
           userStats[wordOfTheDay].proxima_revisao
               = (DayOf(ratedAt) + ClaimedInterval(rated)) * TicksPerDay
    /\ daysUntilReview(0) < daysUntilReview(1)
    /\ daysUntilReview(1) < daysUntilReview(2)

\* a word that had a record was rated EASY later than the start of the day
C6_Witness ==
    /\ rated = 2
    /\ prev \in 0..5
    /\ ratedAt % TicksPerDay # 0

\* the days on which to ask whether id is due: today and, for a record, the
\* day it names, the day before and the day after
ReviewDays(id) ==
    {today} \cup (IF HasRecord(id)
                  THEN LET d == DayOf(userStats[id].proxima_revisao)
                       IN {d - 1, d, d + 1}
                  ELSE {})

\* the ids of the words and of the records, and an id that is neither
SomeIds == WordSet \cup DOMAIN userStats \cup {Len(catalog) + 1}

\* C7: at every time of the days around its review day, a word is due if and only if it has a
\* record whose proxima_revisao is on that day or before; a word without
\* a record is never due.
C7_IsDue ==
    \A id \in SomeIds :
        \A d \in ReviewDays(id) :
            \A t \in Clock(d) :
                isDueForReview(userStats, id, t)
                    <=> (HasRecord(id) /\ DayOf(userStats[id].proxima_revisao) <= d)

\* a word is to be reviewed today, which makes it due today and not the day
\* before, while another word has no record
C7_Witness ==
    /\ \E id \in DOMAIN userStats :
           /\ userStats[id].proxima_revisao = today * TicksPerDay
           /\ isDueForReview(userStats, id, Clock1(today))
    /\ NewSet # {}

\* the counts of the claim, over the word collection
ClaimedSummary ==
    [total |-> Len(words),
     nuevo |-> Cardinality(NewSet),
     aprendiendo |->
         Cardinality({w \in WordSet : HasRecord(w) /\ userStats[w].maestria <= 2}),
     repasando |->
         Cardinality({w \in WordSet : HasRecord(w) /\ userStats[w].maestria >= 3}),
     due |-> Cardinality(DueSet)]

C9_AllCaughtUp ==
    (/\ selectRan
     /\ Len(words) > 0
     /\ \A w \in WordSet :
            HasRecord(w) /\ DayOf(userStats[w].proxima_revisao) > today)
    => /\ AllCaughtUp
       /\ Len(allDoneStats) = 1
       /\ allDoneStats[1].total = Len(words)
       /\ allDoneStats[1].nuevo = 0
       /\ allDoneStats[1].due = 0
       /\ allDoneStats[1].aprendiendo + allDoneStats[1].repasando
              = allDoneStats[1].total

\* the all-done message over a learning word and a reviewing word
C9_Witness ==
    /\ selectRan
    /\ AllCaughtUp
    /\ allDoneStats # <<>>
    /\ allDoneStats[1].aprendiendo = 1
    /\ allDoneStats[1].repasando = 1

\* C10: selectNextWord on an empty collection ends with no current word and
\* without the all-done message, and changes neither the stats nor their
\* stored copy (nor, once the page is ready, anything it shows).
C10_NoWords ==
    [][(selectRan' /\ Len(words') = 0) =>
          /\ ~Truthy(wordOfTheDay')
          /\ ~AllCaughtUp'
          /\ view' # "allDone"
          /\ allDoneStats' = <<>>
          /\ storage' = storage
          /\ pc = "ready" =>
                 UNCHANGED <<userStats, wordOfTheDay, view, allDoneStats>>]_vars

\* the word list failed to load over stats stored by an earlier session, and
\* selectNextWord ran
C10_Witness ==
    /\ selectRan
    /\ pc = "ready"
    /\ Len(words) = 0
    /\ Len(catalog) > 0
    /\ storage # <<>>
    /\ storage[1] # <<>>

\* ----------------------------------------------------------------------
\* the stats the page works on: this.userStats once it is ready, and before
\* that what loadUserStats is about to read
Store == IF pc = "ready" THEN userStats ELSE loadUserStats(storage, userStats)

StoreIds == DOMAIN Store

\* the stats in localStorage
Persisted == IF storage = <<>> THEN <<>> ELSE storage[1]

\* C11: the estado of a record is never persisted as a field of its own: no
\* record of the stored stats carries one.
C11_StageNotStored ==
    \A id \in DOMAIN Persisted : "estado" \notin DOMAIN Persisted[id]

\* C12: the set of word ids with a record only grows, across closing and
\* opening the page too; an id enters it only as the word a rating is applied
\* to, and that word has a record after every rating, so that it is never
\* new again.
C12_RecordsOnlyGrow ==
    [][/\ StoreIds \subseteq StoreIds'
       /\ \A id \in StoreIds' \ StoreIds : rated' \in Ratings /\ id = wordOfTheDay
       /\ rated' \in Ratings =>
              /\ wordOfTheDay \in StoreIds'
              /\ ~isNewWord(userStats', wordOfTheDay)
       /\ \A id \in StoreIds : pc' = "ready" => ~isNewWord(userStats', id)]_vars

\* a word that had a record was rated again while another word has a record
C12_Witness ==
    /\ rated \in Ratings
    /\ prev # NoRecord
    /\ Cardinality(DOMAIN userStats) = 2

\* C13: while the page is ready the stored stats equal this.userStats (both
\* empty before the first rating), so that opening the page again restores
\* the records of all the ratings; and the record a rating wrote is the one
\* getWordStats, isNewWord and isDueForReview read right after it.
C13_Durable ==
    /\ pc = "ready" => userStats = Persisted
    /\ pc = "loading" => Store = Persisted
    /\ rated \in Ratings =>
           /\ storage = saveUserStats(userStats)
           /\ getWordStats(userStats, wordOfTheDay) = <<Persisted[wordOfTheDay]>>
           /\ ~isNewWord(userStats, wordOfTheDay)
           /\ ~isDueForReview(userStats, wordOfTheDay, ratedAt)

\* the page was opened again over two stored records (and the word list
\* failed to load): the stats in memory are the stored ones
C13_Witness ==
    /\ pc = "ready"
    /\ Len(words) = 0
    /\ Cardinality(DOMAIN userStats) = 2
    /\ storage = saveUserStats(userStats)
    /\ \E id \in DOMAIN userStats : userStats[id].maestria > 0

\* C14: a rating whose write to localStorage fails leaves the page able to
\* take a later rating: whenever the page refuses ratings because it is
\* animating, the callback that ends the animation is pending.
C14_SessionStaysUsable ==
    (pc = "ready" /\ isAnimating) => timer # NoTimer

\* C15: isLearned holds of exactly the ids with a record at level 5, hence
\* of no new word; a word at level 4 is learned once it is rated GOOD or
\* EASY; the answer is read from the record as it is now.
C15_Learned ==
    /\ \A id \in SomeIds :
           isLearned(userStats, id)
               <=> (HasRecord(id) /\ userStats[id].maestria = MaxMaestria)
    /\ \A id \in NewSet : ~isLearned(userStats, id)
    /\ (rated \in {1, 2} /\ prev = 4) => isLearned(userStats, wordOfTheDay)
    /\ (rated = 0 /\ prev = MaxMaestria) => ~isLearned(userStats, wordOfTheDay)

\* a word at level 4 was rated GOOD and is learned, while another word is new
C15_Witness ==
    /\ rated = 1
    /\ prev = 4
    /\ isLearned(userStats, wordOfTheDay)
    /\ NewSet # {}

\* C16: a step of the ready page that applies no rating, and so every
\* selectNextWord, leaves this.userStats and the stored stats as they were;
\* getStudyStats gives at any time of the day before a selectNextWord the
\* counts it gives at the end of that day after it.
C16_QueriesKeepStore ==
    [][(pc = "ready" /\ pc' = "ready" /\ rated' \notin Ratings) =>
          /\ UNCHANGED <<userStats, storage>>
          /\ selectRan' =>
                 LET after == getStudyStats(words', userStats', Clock1(today))
                 IN \A t \in Clock(today) :
                        getStudyStats(words, userStats, t) = after]_vars

\* the refresh button ran selectNextWord over stored records and a new word,
\* and a card is shown
C16_Witness ==
    /\ selectRan
    /\ fired = NoRating
    /\ pc = "ready"
    /\ view = "card"
    /\ userStats # <<>>
    /\ NewSet # {}
    /\ storage = saveUserStats(userStats)

\* what selectNextWord leaves on a loaded collection: a due word if one is
\* due, else a new word if there is one, else the all-done message
FreshSelection ==
    /\ selectRan
    /\ DueSet # {} => wordOfTheDay \in DueSet
    /\ (DueSet = {} /\ NewSet # {}) => wordOfTheDay \in NewSet
    /\ (DueSet = {} /\ NewSet = {}) => AllCaughtUp

C18_OneRecord ==
    [][rated' \in Ratings =>
          /\ wordOfTheDay \in DOMAIN userStats'
          /\ wordOfTheDay' = wordOfTheDay
          /\ \A id \in (SomeIds \cup DOMAIN userStats') \ {wordOfTheDay} :
                 /\ id \in DOMAIN userStats' <=> id \in DOMAIN userStats
                 /\ id \in DOMAIN userStats => userStats'[id] = userStats[id]
                 /\ id \in DOMAIN Persisted' <=> id \in DOMAIN Persisted
                 /\ id \in DOMAIN Persisted => Persisted'[id] = Persisted[id]]_vars

\* a word without a record was rated while another word has a record
C18_Witness ==
    /\ rated \in Ratings
    /\ prev = NoRecord
    /\ DOMAIN userStats \ {wordOfTheDay} # {}

\* C19: a rating is applied only when a word is displayed and no animation
\* runs, and it starts the animation; a rating event that arrives while the
\* animation runs or while no word is displayed changes neither the stats,
\* nor their stored copy, nor the current word; the animation ends only with
\* the callback, which presents a word anew, so a word gets at most one
\* rating each time it is presented.
C19_GuardedRating ==
    [][/\ rated' \in Ratings =>
              (Truthy(wordOfTheDay) /\ ~isAnimating /\ isAnimating')
       /\ rated' = Ignored =>
              /\ ~Truthy(wordOfTheDay) \/ isAnimating
              /\ UNCHANGED <<userStats, storage, wordOfTheDay, isAnimating, timer,
                             view, allDoneStats>>
       /\ (pc = "ready" /\ pc' = "ready"
              /\ (~Truthy(wordOfTheDay) \/ isAnimating)) =>
              UNCHANGED <<userStats, storage>>
       /\ (isAnimating /\ ~isAnimating' /\ pc' = "ready") =>
              (fired' \in Ratings /\ (view' = "card" \/ AllCaughtUp'))]_vars

\* a rating event arrived between a rating and its callback, and was ignored
C19_Witness ==
    /\ rated = Ignored
    /\ isAnimating
    /\ timer # NoTimer
    /\ ratedWord = wordOfTheDay

\* C20: the callback of a rating AGAIN shows the word that was rated,
\* whatever the learner clicked between the rating and the callback.
C20_AgainShowsRatedWord ==
    [][fired' = 0 => (wordOfTheDay' = ratedWord /\ view' = "card")]_vars

\* C21: while init awaits the word list nothing is selected and nothing is
\* rated; the step that ends the wait has the word list loaded or, when the
\* fetch failed, still empty, has the stored stats loaded, and has run
\* selectNextWord on them: on a loaded list a word of the list is current or
\* the all-done message is shown, on an empty one no word is current, then
\* and as long as the list is empty.
C21_LoadedBeforeUse ==
    [][/\ pc = "loading" =>
              /\ wordOfTheDay = Null /\ view = "initial"
              /\ rated' = NoRating
              /\ selectRan' => pc' = "ready"
       /\ (pc = "loading" /\ pc' = "ready") =>
              /\ selectRan'
              /\ words' = catalog \/ words' = <<>>
              /\ userStats' = Persisted
              /\ Len(words') > 0 =>
                     \/ wordOfTheDay' \in SeqToSet(words')
                     \/ AllCaughtUp'
       /\ Len(words') = 0 => ~Truthy(wordOfTheDay')]_vars

\* the fetch of the word list failed on a first visit: the page is ready
\* with no words and no current word
C21_Witness ==
    /\ pc = "ready"
    /\ selectRan
    /\ Len(catalog) > 0
    /\ Len(words) = 0
    /\ wordOfTheDay = Null
    /\ storage = <<>>

\* the candidates of the claim: with words due, the due words that have fewer
\* than three due words before them; with none due, the new words
Candidates ==
    IF DueSet # {}
    THEN {w \in DueSet : Cardinality(DueBefore(w)) < 3}
    ELSE NewSet

\* C22: on a loaded collection the words a selectNextWord (here the one of
\* the refresh button) can make current are exactly the candidates: each of
\* the first min(3, k) due words when k > 0 words are due, else each new
\* word, and no other word.
C22_ResultSet ==
    (pc = "ready" /\ Len(words) > 0) =>
        \A w \in WordSet :
            (ENABLED (RefreshWord /\ wordOfTheDay' = w)) <=> w \in Candidates

\* more than three words are due and selectNextWord made the second of them
\* current
C22_Witness ==
    /\ selectRan
    /\ Cardinality(DueSet) > 3
    /\ Cardinality(Candidates) = 3
    /\ wordOfTheDay \in Candidates
    /\ Cardinality(DueBefore(wordOfTheDay)) = 1

\* the words that are due or new
DueOrNew == DueSet \cup NewSet

\* C23: on one day of study of a loaded, non-empty collection, no step of
\* the ready page makes more words due or new, and a rating of a due or new
\* word makes them one fewer; when callbacks run and the learner keeps
\* rating GOOD or EASY, the page gets to the all-done message.
C23_DayEnds ==
    /\ [][(pc = "ready" /\ pc' = "ready") =>
              /\ Cardinality(DueOrNew') <= Cardinality(DueOrNew)
              /\ (rated' \in Ratings /\ wordOfTheDay \in DueOrNew) =>
                     Cardinality(DueOrNew') = Cardinality(DueOrNew) - 1]_vars
    /\ <>(AllCaughtUp \/ (pc = "ready" /\ Len(words) = 0))
    /\ Truthy(wordOfTheDay) ~> AllCaughtUp

\* the last word that was due or new has been rated AGAIN and shown again,
\* while another word has a record
C23_Witness ==
    /\ fired = 0
    /\ Truthy(wordOfTheDay)
    /\ DueOrNew = {}
    /\ Cardinality(DOMAIN userStats) > 1

\* C24: right after a rating on day D the rated word has a record that names
\* day D + 1 or a later day, and is neither new nor due at any time of day D;
\* no word rated on day D is due or new later on day D, and a selectNextWord
\* on day D makes no such word current.
C24_NotAgainToday ==
    /\ rated \in Ratings =>
           /\ wordOfTheDay \in ratedToday
           /\ DayOf(userStats[wordOfTheDay].proxima_revisao) >= today + 1
           /\ \A t \in Clock(today) :
                  /\ ~isNewWord(userStats, wordOfTheDay)
                  /\ ~isDueForReview(userStats, wordOfTheDay, t)
    /\ pc = "ready" => ratedToday \cap DueOrNew = {}
    /\ selectRan => wordOfTheDay \notin ratedToday

\* a word was rated today and the selectNextWord of its callback made
\* another word current
C24_Witness ==
    /\ selectRan
    /\ fired \in {1, 2}
    /\ ratedToday # {}
    /\ Truthy(wordOfTheDay)
    /\ wordOfTheDay \notin ratedToday

\* the stage the claim derives from a level
ClaimedStage(level) == IF level <= 2 THEN "aprendiendo" ELSE "repasando"

\* C25: every record, in this.userStats and in the stored stats, carries
\* the estado of its maestria: "aprendiendo" if and only if the maestria is
\* at most 2, "repasando" if and only if it is at least 3.
C25_StageAgrees ==
    /\ \A id \in DOMAIN userStats :
           /\ userStats[id].estado = ClaimedStage(userStats[id].maestria)
           /\ userStats[id].estado = "aprendiendo" <=> userStats[id].maestria <= 2
           /\ userStats[id].estado = "repasando" <=> userStats[id].maestria >= 3
    /\ \A id \in DOMAIN Persisted :
           Persisted[id].estado = ClaimedStage(Persisted[id].maestria)

\* a word at level 3 or more was rated AGAIN, and its record says
\* "aprendiendo", while another record says "repasando"
C25_Witness ==
    /\ rated = 0
    /\ prev >= 3
    /\ userStats[wordOfTheDay].estado = "aprendiendo"
    /\ \E id \in DOMAIN userStats : userStats[id].estado = "repasando"

\* C26 as claimed: in every state every id with a record is the id of a word
\* of this.words, so there are at most as many records as words and
\* getStudyStats never gives a negative nuevo.
C26_RecordsInCollection ==
    /\ DOMAIN userStats \subseteq WordSet
    /\ Cardinality(DOMAIN userStats) <= Len(words)
    /\ getStudyStats(words, userStats, Clock1(today)).nuevo >= 0

\* C26: a rating is applied only to a word of this.words; while the page is
\* ready with the word list loaded, every id with a record is the id of a
\* word of the list, there are at most as many records as words and
\* getStudyStats gives no negative nuevo; the stats the all-done message
\* shows never have a negative nuevo.
C26_RecordsInLoaded ==
    /\ rated \in Ratings => wordOfTheDay \in WordSet
    /\ (pc = "ready" /\ Len(words) > 0) =>
           /\ DOMAIN userStats \subseteq WordSet
           /\ Cardinality(DOMAIN userStats) <= Len(words)
           /\ getStudyStats(words, userStats, Clock1(today)).nuevo >= 0
    /\ allDoneStats # <<>> => allDoneStats[1].nuevo >= 0

\* every word of a loaded list has a record, the last of them from a rating
\* just applied
C26_Witness ==
    /\ rated \in Ratings
    /\ Len(words) > 1
    /\ DOMAIN userStats = WordSet
    /\ getStudyStats(words, userStats, Clock1(today)).nuevo = 0

====
